---- MODULE Spec2Model ----
(***************************************************************************)
(* Model of ChatThreadComponent                                            *)
(* (packages/chat-component/src/components/chat-thread-component.ts).      *)
(*                                                                         *)
(* The component is a LitElement: four host-supplied reactive properties   *)
(* (chatThread, actionButtons, isDisabled, isProcessingResponse), one      *)
(* reactive internal field (isResponseCopied) and a DOM query for the      *)
(* footer sentinel (chatFooter).  Everything runs on one event loop: a     *)
(* handler and the render pass its property writes request run to          *)
(* completion before the next task, so each action below is one task       *)
(* together with the update it triggers.  setTimeout timers are the only   *)
(* deferred work; they are kept in arming order with the time left.        *)
(*                                                                         *)
(* An optional JavaScript value (T | undefined) is a set with at most one  *)
(* element: {} is undefined, {v} is the value v.                           *)
(* A text block's value, a citation and a question are strings; the        *)
(* markup-only parts of a message (followingSteps, error, timestamp) are   *)
(* not read by any handler and are left out of the rendered tree.          *)
(***************************************************************************)
EXTENDS Integers, Sequences, FiniteSets, TLC

VARIABLES
    chatThread,            \* @property chatThread: ChatThreadEntry[]
    actionButtons,         \* @property actionButtons: ChatActionButton[]
    isDisabled,            \* @property isDisabled
    isProcessingResponse,  \* @property isProcessingResponse
    isResponseCopied,      \* @state isResponseCopied
    hasUpdated,            \* the element has been connected and rendered once
    chatFooter,            \* @query('#chat-list-footer') finds the sentinel
    rendered,              \* the tree committed by the last render pass
    timers,                \* armed setTimeout timers: time left, arming order
    lastOp,                \* the task that ran last, with its arguments
    effects                \* the platform calls that task made, in order

vars == <<chatThread, actionButtons, isDisabled, isProcessingResponse,
          isResponseCopied, hasUpdated, chatFooter, rendered, timers,
          lastOp, effects>>

component == <<chatThread, actionButtons, isDisabled, isProcessingResponse,
               isResponseCopied>>

-----------------------------------------------------------------------------
(* Bounds and program constants *)

\* delay passed to setTimeout
DebounceDelay == 500

\* most timers armed and not yet fired at once
MaxTimers == 3

\* most entries of the transcripts of ProjectionSpec
MaxEntries == 2

\* how far the clock moves in one step when no timer is due sooner
TickSteps == {DebounceDelay \div 2}

-----------------------------------------------------------------------------
(* Optional values and small helpers *)

Undefined == {}

Only(opt) == CHOOSE v \in opt : TRUE

Min(a, b) == IF a <= b THEN a ELSE b

RECURSIVE SumSeq(_)
SumSeq(s) == IF s = <<>> THEN 0 ELSE Head(s) + SumSeq(Tail(s))

\* Array.prototype.at(-1): the last element, undefined on an empty array
AtLast(s) == IF Len(s) = 0 THEN Undefined ELSE {s[Len(s)]}

-----------------------------------------------------------------------------
(* Platform calls a task can make *)

PreventDefault == [kind |-> "preventDefault"]

DispatchEvent(event) == [kind |-> "dispatchEvent", event |-> event]

WriteText(value) == [kind |-> "clipboard.writeText", value |-> value]

ScrollIntoView == [kind |-> "scrollIntoView", behavior |-> "smooth", block |-> "center"]

CustomEvent(type, detail) ==
    [type |-> type, detail |-> detail, bubbles |-> TRUE, composed |-> TRUE]

-----------------------------------------------------------------------------
(* Handlers *)

\* chatThread.at(-1)?.text.at(-1)?.value
LastTextValue(thread) ==
    UNION { { t.value : t \in AtLast(e.text) } : e \in AtLast(thread) }

\* faulty variant: the flag is flipped instead of set
copyResponseToggles(thread) ==
    [effects |-> <<WriteText(LastTextValue(thread))>>,
     isResponseCopied |-> ~isResponseCopied]

copyResponseToClipboard(thread) ==
    LET response == LastTextValue(thread)
    IN  [effects |-> <<WriteText(response)>>, isResponseCopied |-> TRUE]

\* faulty variant: the notification carries the button's label, not its id
actionButtonClickedLabel(actionButton, entry) ==
    << PreventDefault,
       DispatchEvent(CustomEvent("on-action-button-click",
                                 [id |-> actionButton.label, chatThreadEntry |-> entry])) >>

actionButtonClicked(actionButton, entry) ==
    << PreventDefault,
       DispatchEvent(CustomEvent("on-action-button-click",
                                 [id |-> actionButton.id, chatThreadEntry |-> entry])) >>

handleCitationClick(citationClickedEvent) ==
    << DispatchEvent(citationClickedEvent) >>

handleFollowupQuestionClick(question) ==
    << PreventDefault,
       DispatchEvent(CustomEvent("on-followup-click", [question |-> question])) >>

-----------------------------------------------------------------------------
(* Auto-scroll timers.  A timer handle is the timer's position in `timers`,
   counted from 1, so 0 is the handle of no timer. *)

clearTimeout(ts, handle) ==
    IF handle \in DOMAIN ts
    THEN [k \in 1..(Len(ts) - 1) |-> IF k < handle THEN ts[k] ELSE ts[k + 1]]
    ELSE ts

setTimeout(ts, delay) == Append(ts, delay)

debounceScrollIntoView(ts) ==
    LET timeout == 0
    IN  setTimeout(clearTimeout(ts, timeout), DebounceDelay)

RECURSIVE debounceTimes(_, _)
debounceTimes(ts, n) ==
    IF n = 0 THEN ts ELSE debounceTimes(debounceScrollIntoView(ts), n - 1)

\* faulty variant: the callback scrolls without looking for the footer
timeoutCallbackUnguarded(footer) == <<ScrollIntoView>>

\* the arrow function handed to setTimeout
timeoutCallback(footer) == IF footer THEN <<ScrollIntoView>> ELSE <<>>

-----------------------------------------------------------------------------
(* Projection *)

renderResponseActions(entry, buttons, disabled, copied) ==
    [ buttons |-> [k \in DOMAIN buttons |->
                     [id |-> buttons[k].id, label |-> buttons[k].label,
                      disabled |-> buttons[k].isDisabled]],
      copy    |-> [disabled |-> disabled,
                   label |-> IF copied THEN "COPIED_SUCCESSFULLY_MESSAGE"
                                       ELSE "COPY_RESPONSE_BUTTON_LABEL_TEXT"] ]

\* faulty variant: a text block requests a scroll whether or not a response is streaming
renderTextEntryAlwaysScrolls(textEntry, processing) ==
    [ node   |-> [value |-> textEntry.value],
      scroll |-> 1 ]

renderTextEntry(textEntry, processing) ==
    [ node   |-> [value |-> textEntry.value],
      scroll |-> IF processing THEN 1 ELSE 0 ]

renderCitation(citations) ==
    IF citations # Undefined /\ Len(Only(citations)) > 0
    THEN {[citations |-> Only(citations)]}
    ELSE {}

renderFollowupQuestions(followupQuestions) ==
    IF followupQuestions # Undefined /\ Len(Only(followupQuestions)) > 0
    THEN {[questions |-> Only(followupQuestions)]}
    ELSE {}

\* faulty variant: the action-button row is rendered for every entry
renderMessageHeaderForAll(message, buttons, disabled, processing, copied) ==
    [ userMessage |-> message.isUserMessage,
      header      |-> {renderResponseActions(message, buttons, disabled, copied)},
      text        |-> [j \in DOMAIN message.text |-> [value |-> message.text[j].value]],
      citations   |-> renderCitation(message.citations),
      followups   |-> renderFollowupQuestions(message.followupQuestions),
      author      |-> IF message.isUserMessage THEN "You" ELSE "USER_IS_BOT",
      scroll      |-> IF processing THEN Len(message.text) ELSE 0 ]

renderMessage(message, buttons, disabled, processing, copied) ==
    LET texts == [j \in DOMAIN message.text |-> renderTextEntry(message.text[j], processing)]
    IN  [ userMessage |-> message.isUserMessage,
          header      |-> IF message.isUserMessage THEN {}
                          ELSE {renderResponseActions(message, buttons, disabled, copied)},
          text        |-> [j \in DOMAIN texts |-> texts[j].node],
          citations   |-> renderCitation(message.citations),
          followups   |-> renderFollowupQuestions(message.followupQuestions),
          author      |-> IF message.isUserMessage THEN "You" ELSE "USER_IS_BOT",
          scroll      |-> SumSeq([j \in DOMAIN texts |-> texts[j].scroll]) ]

render(thread, buttons, disabled, processing, copied) ==
    LET items == [i \in DOMAIN thread |->
                    renderMessage(thread[i], buttons, disabled, processing, copied)]
    IN  [ items  |-> [i \in DOMAIN items |->
                        [f \in DOMAIN items[i] \ {"scroll"} |-> items[i][f]]],
          scroll |-> SumSeq([i \in DOMAIN items |-> items[i].scroll]) ]

-----------------------------------------------------------------------------
(* Host inputs *)

Text(value) == [value |-> value]

UserHi ==
    [isUserMessage |-> TRUE, text |-> <<Text("Hi")>>,
     citations |-> Undefined, followupQuestions |-> Undefined]

UserWithExtras ==
    [isUserMessage |-> TRUE, text |-> <<Text("Hi")>>,
     citations |-> {<<"c1">>}, followupQuestions |-> {<<"q1">>}]

BotHello ==
    [isUserMessage |-> FALSE, text |-> <<Text("Hello!")>>,
     citations |-> {<<"c1">>}, followupQuestions |-> {<<"q1", "q2">>}]

BotStreaming ==
    [isUserMessage |-> FALSE, text |-> <<Text("Hel"), Text("lo!")>>,
     citations |-> Undefined, followupQuestions |-> Undefined]

BotNoText ==
    [isUserMessage |-> FALSE, text |-> <<>>,
     citations |-> {<<>>}, followupQuestions |-> {<<>>}]

ThreadInputs ==
    { <<>>,
      <<UserHi>>,
      <<UserHi, BotHello>>,
      <<UserHi, BotStreaming>>,
      <<BotHello, UserHi>>,
      <<UserHi, BotNoText>>,
      <<BotStreaming, BotHello>>,
      <<UserWithExtras, BotHello>> }

Like == [label |-> "Like", svgIcon |-> "svg", isDisabled |-> FALSE, id |-> "like"]

Regenerate ==
    [label |-> "Regenerate", svgIcon |-> "svg", isDisabled |-> TRUE, id |-> "regenerate"]

ButtonInputs == { <<>>, <<Like, Regenerate>> }

-----------------------------------------------------------------------------
(* State machine *)

Init ==
    /\ chatThread = <<>>
    /\ actionButtons = <<>>
    /\ isDisabled = FALSE
    /\ isProcessingResponse = FALSE
    /\ isResponseCopied = FALSE
    /\ hasUpdated = FALSE
    /\ chatFooter = FALSE
    /\ rendered = <<>>
    /\ timers = <<>>
    /\ lastOp = [op |-> "constructor", rendered |-> FALSE]
    /\ effects = <<>>

\* One render pass over the given property values, and its commit.
RenderPass(thread, buttons, disabled, processing, copied) ==
    LET out == render(thread, buttons, disabled, processing, copied)
    IN  /\ Len(timers) + out.scroll <= MaxTimers
        /\ rendered' = out.items
        /\ timers' = debounceTimes(timers, out.scroll)

\* A reactive property changed: Lit renders again once the element is connected.
RequestUpdate(thread, buttons, disabled, processing, copied) ==
    IF hasUpdated
    THEN RenderPass(thread, buttons, disabled, processing, copied)
    ELSE UNCHANGED <<rendered, timers>>

\* The element is attached to the document: first render, which creates the footer.
Connect ==
    /\ ~hasUpdated
    /\ hasUpdated' = TRUE
    /\ chatFooter' = TRUE
    /\ RenderPass(chatThread, actionButtons, isDisabled, isProcessingResponse, isResponseCopied)
    /\ lastOp' = [op |-> "connect", rendered |-> TRUE]
    /\ effects' = <<>>
    /\ UNCHANGED component

SetChatThread(thread) ==
    /\ chatThread' = thread
    /\ RequestUpdate(thread, actionButtons, isDisabled, isProcessingResponse, isResponseCopied)
    /\ lastOp' = [op |-> "setChatThread", rendered |-> hasUpdated]
    /\ effects' = <<>>
    /\ UNCHANGED <<actionButtons, isDisabled, isProcessingResponse, isResponseCopied,
                   hasUpdated, chatFooter>>

SetActionButtons(buttons) ==
    /\ actionButtons' = buttons
    /\ RequestUpdate(chatThread, buttons, isDisabled, isProcessingResponse, isResponseCopied)
    /\ lastOp' = [op |-> "setActionButtons", rendered |-> hasUpdated]
    /\ effects' = <<>>
    /\ UNCHANGED <<chatThread, isDisabled, isProcessingResponse, isResponseCopied,
                   hasUpdated, chatFooter>>

SetIsDisabled ==
    /\ isDisabled' = ~isDisabled
    /\ RequestUpdate(chatThread, actionButtons, ~isDisabled, isProcessingResponse, isResponseCopied)
    /\ lastOp' = [op |-> "setIsDisabled", rendered |-> hasUpdated]
    /\ effects' = <<>>
    /\ UNCHANGED <<chatThread, actionButtons, isProcessingResponse, isResponseCopied,
                   hasUpdated, chatFooter>>

SetIsProcessingResponse ==
    /\ isProcessingResponse' = ~isProcessingResponse
    /\ RequestUpdate(chatThread, actionButtons, isDisabled, ~isProcessingResponse, isResponseCopied)
    /\ lastOp' = [op |-> "setIsProcessingResponse", rendered |-> hasUpdated]
    /\ effects' = <<>>
    /\ UNCHANGED <<chatThread, actionButtons, isDisabled, isResponseCopied,
                   hasUpdated, chatFooter>>

\* Click on the copy button in the header of rendered item i.
CopyClick(i) ==
    /\ hasUpdated
    /\ i \in DOMAIN rendered
    /\ rendered[i].header # {}
    /\ ~Only(rendered[i].header).copy.disabled
    /\ LET r == copyResponseToClipboard(chatThread)
       IN  /\ effects' = r.effects
           /\ isResponseCopied' = r.isResponseCopied
           /\ IF r.isResponseCopied # isResponseCopied
              THEN /\ RenderPass(chatThread, actionButtons, isDisabled,
                                 isProcessingResponse, r.isResponseCopied)
                   /\ lastOp' = [op |-> "copyResponseToClipboard", entry |-> i, rendered |-> TRUE]
              ELSE /\ UNCHANGED <<rendered, timers>>
                   /\ lastOp' = [op |-> "copyResponseToClipboard", entry |-> i, rendered |-> FALSE]
    /\ UNCHANGED <<chatThread, actionButtons, isDisabled, isProcessingResponse,
                   hasUpdated, chatFooter>>

\* Click on caller-supplied button k in the header of rendered item i.
ActionButtonClick(i, k) ==
    /\ hasUpdated
    /\ i \in DOMAIN rendered
    /\ rendered[i].header # {}
    /\ k \in DOMAIN Only(rendered[i].header).buttons
    /\ ~Only(rendered[i].header).buttons[k].disabled
    /\ effects' = actionButtonClicked(actionButtons[k], chatThread[i])
    /\ lastOp' = [op |-> "actionButtonClicked", entry |-> i, button |-> k, rendered |-> FALSE]
    /\ UNCHANGED <<component, hasUpdated, chatFooter, rendered, timers>>

\* Click on follow-up link q of rendered item i.
FollowupClick(i, q) ==
    /\ hasUpdated
    /\ i \in DOMAIN rendered
    /\ rendered[i].followups # {}
    /\ q \in DOMAIN Only(rendered[i].followups).questions
    /\ effects' = handleFollowupQuestionClick(Only(rendered[i].followups).questions[q])
    /\ lastOp' = [op |-> "handleFollowupQuestionClick", entry |-> i, question |-> q,
                  rendered |-> FALSE]
    /\ UNCHANGED <<component, hasUpdated, chatFooter, rendered, timers>>

\* The citation list of rendered item i raises on-citation-click for citation c.
CitationClick(i, c) ==
    /\ hasUpdated
    /\ i \in DOMAIN rendered
    /\ rendered[i].citations # {}
    /\ c \in DOMAIN Only(rendered[i].citations).citations
    /\ LET event == CustomEvent("on-citation-click",
                                [citation |-> Only(rendered[i].citations).citations[c]])
       IN  /\ effects' = handleCitationClick(event)
           /\ lastOp' = [op |-> "handleCitationClick", event |-> event, rendered |-> FALSE]
    /\ UNCHANGED <<component, hasUpdated, chatFooter, rendered, timers>>

\* Time passes, never past the moment the next timer is due.
Tick ==
    /\ timers # <<>>
    /\ timers[1] > 0
    /\ \E step \in TickSteps :
         LET d == Min(step, timers[1])
         IN  timers' = [k \in DOMAIN timers |-> timers[k] - d]
    /\ lastOp' = [op |-> "tick", rendered |-> FALSE]
    /\ effects' = <<>>
    /\ UNCHANGED <<component, hasUpdated, chatFooter, rendered>>

\* faulty variant: the timer is periodic (setInterval) and arms itself again
TimerFireRepeats ==
    /\ timers # <<>>
    /\ timers[1] = 0
    /\ effects' = timeoutCallback(chatFooter)
    /\ timers' = Append(Tail(timers), DebounceDelay)
    /\ lastOp' = [op |-> "timeout", rendered |-> FALSE,
                  superseded |-> \E k \in 2..Len(timers) : timers[k] < DebounceDelay]
    /\ UNCHANGED <<component, hasUpdated, chatFooter, rendered>>

\* The timer that is due runs its callback; timers run in arming order.
TimerFire ==
    /\ timers # <<>>
    /\ timers[1] = 0
    /\ effects' = timeoutCallback(chatFooter)
    /\ timers' = Tail(timers)
    /\ lastOp' = [op |-> "timeout", rendered |-> FALSE,
                  superseded |-> \E k \in 2..Len(timers) : timers[k] < DebounceDelay]
    /\ UNCHANGED <<component, hasUpdated, chatFooter, rendered>>

\* The host removes the footer sentinel from the element's open render root.
FooterRemoved ==
    /\ hasUpdated
    /\ chatFooter
    /\ chatFooter' = FALSE
    /\ lastOp' = [op |-> "footerRemoved", rendered |-> FALSE]
    /\ effects' = <<>>
    /\ UNCHANGED <<component, hasUpdated, rendered, timers>>

Buttons(item) == IF item.header = {} THEN <<>> ELSE Only(item.header).buttons

Questions(item) == IF item.followups = {} THEN <<>> ELSE Only(item.followups).questions

Citations(item) == IF item.citations = {} THEN <<>> ELSE Only(item.citations).citations

Next ==
    \/ Connect
    \/ \E thread \in ThreadInputs : SetChatThread(thread)
    \/ \E buttons \in ButtonInputs : SetActionButtons(buttons)
    \/ SetIsDisabled
    \/ SetIsProcessingResponse
    \/ \E i \in DOMAIN rendered : CopyClick(i)
    \/ \E i \in DOMAIN rendered : \E k \in DOMAIN Buttons(rendered[i]) : ActionButtonClick(i, k)
    \/ \E i \in DOMAIN rendered : \E q \in DOMAIN Questions(rendered[i]) : FollowupClick(i, q)
    \/ \E i \in DOMAIN rendered : \E c \in DOMAIN Citations(rendered[i]) : CitationClick(i, c)
    \/ Tick
    \/ TimerFire
    \/ FooterRemoved

Spec == Init /\ [][Next]_vars

\* The scheduler under the event loop's guarantees: time passes, and a timer
\* that is due runs.
LiveSpec == Spec /\ WF_vars(Tick) /\ WF_vars(TimerFire)

-----------------------------------------------------------------------------
(* The projection on its own: every transcript of at most MaxEntries entries,
   with every combination of absent, empty and non-empty citations and
   follow-up questions on user and non-user entries, rendered once. *)

OptListInputs(x) == { Undefined, {<<>>}, {<<x>>} }

EntryInputs ==
    [ isUserMessage : BOOLEAN, text : { <<Text("Hi")>> },
      citations : OptListInputs("c1"), followupQuestions : OptListInputs("q1") ]

ProjectionInit ==
    /\ chatThread \in UNION { [1..n -> EntryInputs] : n \in 0..MaxEntries }
    /\ actionButtons \in ButtonInputs
    /\ isDisabled \in BOOLEAN
    /\ isProcessingResponse \in BOOLEAN
    /\ isResponseCopied = FALSE
    /\ hasUpdated = FALSE
    /\ chatFooter = FALSE
    /\ rendered = <<>>
    /\ timers = <<>>
    /\ lastOp = [op |-> "constructor", rendered |-> FALSE]
    /\ effects = <<>>

ProjectionNext == Connect

ProjectionSpec == ProjectionInit /\ [][ProjectionNext]_vars

-----------------------------------------------------------------------------
(* Properties *)

TotalTextBlocks(thread) == SumSeq([i \in DOMAIN thread |-> Len(thread[i].text)])

Dispatched(effs) == SelectSeq(effs, LAMBDA e : e.kind = "dispatchEvent")

Responses(thread) == { i \in DOMAIN thread : ~thread[i].isUserMessage }

\* the value of the last text block of the latest entry with isUserMessage = false
MostRecentResponseText(thread) ==
    LET last == CHOOSE i \in Responses(thread) : \A j \in Responses(thread) : j <= i
    IN  IF Responses(thread) = {} THEN Undefined
        ELSE { t.value : t \in AtLast(thread[last].text) }

NonEmptyList(opt) == opt # Undefined /\ Only(opt) # <<>>

\* C1: a timer never fires when another scroll request was made less than
\* the quiet period (DebounceDelay) after the request that armed it: within a
\* burst of requests only the timer of the last request fires.
C1_OnlyLastRequestFires ==
    lastOp.op = "timeout" => ~lastOp.superseded

\* C2: at most one armed, not yet fired scroll timer exists in any state.
C2_AtMostOnePendingTimer ==
    Len(timers) <= 1

\* C3 (as stated): a rendered user entry has no action-button row, no
\* citation region and no follow-up region, whatever its fields hold.
C3_UserEntryRendersNoExtras ==
    hasUpdated =>
        \A i \in DOMAIN chatThread :
            chatThread[i].isUserMessage =>
                /\ rendered[i].header = {}
                /\ rendered[i].citations = {}
                /\ rendered[i].followups = {}

\* C3 (amended): a rendered user entry has no action-button row; its citation
\* region and its follow-up region are rendered exactly when the field is
\* present and non-empty, and then hold the field's contents, as for a
\* non-user entry.
C3_UserEntryRendersNoHeader ==
    hasUpdated =>
        \A i \in DOMAIN chatThread :
            chatThread[i].isUserMessage =>
                /\ rendered[i].header = {}
                /\ rendered[i].citations =
                       IF NonEmptyList(chatThread[i].citations)
                       THEN {[citations |-> Only(chatThread[i].citations)]} ELSE {}
                /\ rendered[i].followups =
                       IF NonEmptyList(chatThread[i].followupQuestions)
                       THEN {[questions |-> Only(chatThread[i].followupQuestions)]} ELSE {}

\* a rendered user entry that carries citations and follow-up questions
C3_Witness ==
    /\ hasUpdated
    /\ \E i \in DOMAIN chatThread :
           /\ chatThread[i].isUserMessage
           /\ NonEmptyList(chatThread[i].citations)
           /\ NonEmptyList(chatThread[i].followupQuestions)
           /\ rendered[i].header = {}
           /\ rendered[i].citations # {}
           /\ rendered[i].followups # {}

\* C4: a click on the copy button leaves isResponseCopied true, and no step
\* of the component ever takes isResponseCopied from true back to false.
C4_CopiedStaysTrue ==
    [][ /\ (lastOp'.op = "copyResponseToClipboard" => isResponseCopied')
        /\ (isResponseCopied => isResponseCopied') ]_vars

\* the flag is still set after a second click, a new transcript and a timer
C4_Witness ==
    /\ isResponseCopied
    /\ lastOp.op = "timeout"
    /\ Len(chatThread) = 2

\* C5: on a non-empty transcript a click on a copy button writes to the
\* clipboard the value of the last text block of the most recent response
\* (the latest entry that is not a user message).
C5_CopiesMostRecentResponse ==
    (lastOp.op = "copyResponseToClipboard" /\ chatThread # <<>>) =>
        effects = <<WriteText(MostRecentResponseText(chatThread))>>

\* C6: when the copy action runs and the last entry has no text block (or
\* there is no entry), no clipboard write is issued.
C6_CopySkippedWithoutText ==
    (lastOp.op = "copyResponseToClipboard" /\ LastTextValue(chatThread) = Undefined) =>
        \A k \in DOMAIN effects : effects[k].kind # "clipboard.writeText"

\* C7: a timer that fires scrolls to the footer sentinel exactly when the
\* sentinel exists, changes nothing of the component either way, and is no
\* longer armed afterwards.
C7_FireScrollsIffFooter ==
    [][ lastOp'.op = "timeout" =>
            /\ effects' = IF chatFooter THEN <<ScrollIntoView>> ELSE <<>>
            /\ timers' = Tail(timers)
            /\ UNCHANGED <<component, hasUpdated, chatFooter, rendered>> ]_vars

\* a timer fired while the footer sentinel was absent, and nothing was scrolled
C7_Witness ==
    /\ lastOp.op = "timeout"
    /\ ~chatFooter
    /\ effects = <<>>

\* C8: an action-button click, a follow-up click and a citation click each
\* emit exactly one notification, carrying {id, chatThreadEntry} of the
\* clicked button and entry, {question} of the clicked question, and the
\* received event itself; none of them changes isResponseCopied, the armed
\* timers or the transcript, and isResponseCopied changes only in the copy
\* action.
C8_DispatchOnly ==
    [][ /\ lastOp'.op = "actionButtonClicked" =>
              Dispatched(effects') =
                  << DispatchEvent(CustomEvent("on-action-button-click",
                        [id |-> actionButtons[lastOp'.button].id,
                         chatThreadEntry |-> chatThread[lastOp'.entry]])) >>
        /\ lastOp'.op = "handleFollowupQuestionClick" =>
              Dispatched(effects') =
                  << DispatchEvent(CustomEvent("on-followup-click",
                        [question |-> Only(chatThread[lastOp'.entry].followupQuestions)
                                          [lastOp'.question]])) >>
        /\ lastOp'.op = "handleCitationClick" =>
              effects' = << DispatchEvent(lastOp'.event) >>
        /\ lastOp'.op \in {"actionButtonClicked", "handleFollowupQuestionClick",
                           "handleCitationClick"} =>
              UNCHANGED <<isResponseCopied, timers, chatThread>>
        /\ isResponseCopied' # isResponseCopied =>
              lastOp'.op = "copyResponseToClipboard" ]_vars

\* an enabled action button was clicked while the copied flag was set and a
\* scroll timer was armed
C8_Witness ==
    /\ lastOp.op = "actionButtonClicked"
    /\ isResponseCopied
    /\ timers # <<>>

\* C9: a step arms timers only by rendering: a render pass arms one timer per
\* text block of the transcript (user and non-user entries alike) when
\* isProcessingResponse is true and none when it is false, and a step that
\* does not render arms none.
C9_ScrollRequestPerTextBlock ==
    [][ LET armed == Len(timers') - Len(timers)
        IN  IF lastOp'.rendered
            THEN armed = IF isProcessingResponse' THEN TotalTextBlocks(chatThread') ELSE 0
            ELSE armed <= 0 ]_vars

\* a render pass over three text blocks of a user and a non-user entry armed
\* three timers
C9_Witness ==
    /\ lastOp.rendered
    /\ isProcessingResponse
    /\ TotalTextBlocks(chatThread) = 3
    /\ timers = <<DebounceDelay, DebounceDelay, DebounceDelay>>

\* C10: if from some point on no scroll request is made, then eventually no
\* timer is armed any more; and whenever a timer is armed a timer eventually
\* fires, scrolling to the footer sentinel if it exists at that moment.
C10_PendingScrollFires ==
    /\ (<>[][Len(timers') <= Len(timers)]_vars) => <>[](timers = <<>>)
    /\ (timers # <<>>) ~>
           (lastOp.op = "timeout"
               /\ effects = IF chatFooter THEN <<ScrollIntoView>> ELSE <<>>)

\* the last armed timer has fired and scrolled the footer sentinel into view
C10_Witness ==
    /\ timers = <<>>
    /\ lastOp.op = "timeout"
    /\ effects = <<ScrollIntoView>>

====
